---- MODULE Spec2Model ----
(***************************************************************************)
(* A model of src/new.py: the SQLite-backed ledger service                 *)
(* (BankManagementSystem) and the Tk screens that drive it (BankGUI).      *)
(*                                                                         *)
(* Amounts are modelled as integers (whole currency units): every sum and  *)
(* difference the code computes on them is then exact, and the floats inf  *)
(* and nan are not among them.  Account numbers and transaction ids are    *)
(* the AUTOINCREMENT keys: since no row is ever deleted, the key of a row  *)
(* is its position in the table.  No statement of the store fails other    *)
(* than by the UNIQUE constraint on users.email, except in SpecStoreErrors *)
(* where the INSERT into transactions may fail.  SpecTwoProcesses has two  *)
(* processes on the database; every other specification has one.          *)
(***************************************************************************)
EXTENDS Integers, Sequences, FiniteSets, TLC

\* ---------------------------------------------------------------- bounds
MaxTxns == 3
MaxTime == 1
MaxBalance == 3

\* ---------------------------------------------------------------- inputs
Names == {"A"}
Phones == {"555"}
Emails == {"a@x.com", "b@x.com"}
Passwords == {"pw"}
Amounts == {-1, 0, 1, 2}
\* The arguments the ledger service is specified for: an initial deposit
\* >= 0, a deposit or withdrawal amount > 0.
InitialDeposits == {a \in Amounts : a >= 0}
PositiveAmounts == {a \in Amounts : a > 0}
\* email is UNIQUE: there are never more accounts than emails.
AccountNumbers == 1..Cardinality(Emails)

\* What a user can type into an entry field: a numeral, nothing, or junk.
AmountTexts == {ToString(n) : n \in Amounts} \cup {"", "abc"}
EmailTexts == Emails \cup {""}
PasswordTexts == Passwords \cup {"px", ""}
Processes == {"p", "q"}

VARIABLES
    users,          \* table users, as the connection sees it
    transactions,   \* table transactions, as the connection sees it
    committed,      \* the committed content of both tables
    now,            \* CURRENT_TIMESTAMP of the store (whole seconds)
    current_user,   \* BankGUI.current_user
    screen,         \* the screen BankGUI shows
    withdrawing     \* where each process stands inside withdraw_money

vars == <<users, transactions, committed, now, current_user, screen,
          withdrawing>>

\* ---------------------------------------------------------------- values
\* Python's None as the result of a ledger call, and a returned number.
None == [none |-> TRUE, val |-> 0, msg |-> ""]
Value(v) == [none |-> FALSE, val |-> v, msg |-> ""]
Failure(m) == [none |-> TRUE, val |-> 0, msg |-> m]
Success(v) == [none |-> FALSE, val |-> v, msg |-> "Success"]

\* BankGUI.current_user before any login.
NoUser == [account_number |-> 0, name |-> "", balance |-> 0]

\* float(text): the number a numeral denotes, ValueError for anything else.
IsNumeral(text) == \E n \in Amounts : ToString(n) = text
float(text) == CHOOSE n \in Amounts : ToString(n) = text

\* ---------------------------------------------------------------- store
\* Mutant: users.email without its UNIQUE constraint.
EmailNotUnique(email) == FALSE

\* UNIQUE on users.email: the INSERT raises IntegrityError.
EmailExists(email) == \E i \in 1..Len(users) : users[i].email = email

AccountExists(account_number) == account_number \in 1..Len(users)

\* The rows of one account, by position in the table (= transaction_id).
RowIds(txs, account_number) ==
    {i \in 1..Len(txs) : txs[i].account_number = account_number}

\* Mutant: the statement keeps one row per account (INSERT OR REPLACE on
\* the account number) and overwrites that row.
record_transaction_replaces(txs, account_number, trans_type, amount, balance_after) ==
    LET row == [account_number |-> account_number,
                transaction_type |-> trans_type,
                amount |-> amount,
                balance_after |-> balance_after,
                transaction_date |-> now]
        ids == RowIds(txs, account_number)
    IN IF ids = {} THEN Append(txs, row)
       ELSE [txs EXCEPT ![CHOOSE i \in ids : \A j \in ids : j <= i] = row]

\* INSERT INTO transactions: transaction_date defaults to CURRENT_TIMESTAMP.
record_transaction(txs, account_number, trans_type, amount, balance_after) ==
    Append(txs, [account_number |-> account_number,
                 transaction_type |-> trans_type,
                 amount |-> amount,
                 balance_after |-> balance_after,
                 transaction_date |-> now])

\* conn.commit(): everything the connection has written becomes durable.
Commit(us, txs) == [users |-> us, transactions |-> txs]

Outcome(us, txs, com, ret) ==
    [users |-> us, transactions |-> txs, committed |-> com, ret |-> ret]

\* ---------------------------------------------------------------- ledger
\* Mutants of the test on the initial deposit: one records a row for a
\* deposit of zero too, one never records the row.
RecordsInitialDepositOfZero(initial_deposit) == initial_deposit >= 0
RecordsInitialDepositNever(initial_deposit) == FALSE

RecordsInitialDeposit(initial_deposit) == initial_deposit > 0

register_user(full_name, email, phone, password, initial_deposit) ==
    IF EmailExists(email)
    THEN Outcome(users, transactions, committed, None)
    ELSE LET us == Append(users, [full_name |-> full_name, email |-> email,
                                  phone |-> phone, password |-> password,
                                  balance |-> initial_deposit])
             com == Commit(us, transactions)
             account_number == Len(us)
             txs == IF RecordsInitialDeposit(initial_deposit)
                    THEN record_transaction(transactions, account_number,
                                            "Deposit", initial_deposit, initial_deposit)
                    ELSE transactions
         IN Outcome(us, txs, com, Value(account_number))

\* Mutant: the query matches on the email alone.
login_user_by_email(email, password) ==
    LET hits == {i \in 1..Len(users) : users[i].email = email}
    IN IF hits = {} THEN NoUser
       ELSE LET i == CHOOSE j \in hits : \A k \in hits : j <= k
            IN [account_number |-> i, name |-> users[i].full_name,
                balance |-> users[i].balance]

\* SELECT ... WHERE email = ? AND password = ?; fetchone().
login_user(email, password) ==
    LET hits == {i \in 1..Len(users) :
                    users[i].email = email /\ users[i].password = password}
    IN IF hits = {} THEN NoUser
       ELSE LET i == CHOOSE j \in hits : \A k \in hits : j <= k
            IN [account_number |-> i, name |-> users[i].full_name,
                balance |-> users[i].balance]

\* Mutant: the deposit UPDATE subtracts.
DepositedBalanceSubtracts(balance, amount) == balance - amount

DepositedBalance(balance, amount) == balance + amount

\* Mutant: a missing users row reads as a balance of zero instead of raising,
\* so the deposit goes on to record its row.
deposit_money_any_account(account_number, amount) ==
    LET us == IF AccountExists(account_number)
              THEN [users EXCEPT ![account_number].balance =
                                    DepositedBalance(@, amount)]
              ELSE users
        new_balance == IF AccountExists(account_number)
                       THEN us[account_number].balance
                       ELSE amount
        txs == record_transaction(transactions, account_number,
                                  "Deposit", amount, new_balance)
    IN Outcome(us, txs, Commit(us, txs), Value(new_balance))

\* fetchone()[0] on an account that does not exist raises TypeError, which
\* deposit_money does not catch: nothing is written, nothing is committed.
deposit_money(account_number, amount) ==
    IF ~AccountExists(account_number)
    THEN Outcome(users, transactions, committed, Failure("TypeError"))
    ELSE LET us == [users EXCEPT ![account_number].balance =
                                     DepositedBalance(@, amount)]
             new_balance == us[account_number].balance
             txs == record_transaction(transactions, account_number,
                                       "Deposit", amount, new_balance)
         IN Outcome(us, txs, Commit(us, txs), Value(new_balance))

\* Mutants of the funds check: one never refuses, one refuses a withdrawal of
\* the whole balance, one refuses only an overdraft of more than one unit.
InsufficientFundsNever(current_balance, amount) == FALSE
InsufficientFundsAtBalance(current_balance, amount) == current_balance <= amount
InsufficientFundsOffByOne(current_balance, amount) == current_balance + 1 < amount

InsufficientFunds(current_balance, amount) == current_balance < amount

\* Mutant: the withdrawal UPDATE leaves the stored balance as it was.
WithdrawnBalanceKept(balance, amount) == balance

WithdrawnBalance(balance, amount) == balance - amount

withdraw_money(account_number, amount) ==
    IF ~AccountExists(account_number)
    THEN Outcome(users, transactions, committed, Failure("TypeError"))
    ELSE LET current_balance == users[account_number].balance
         IN IF InsufficientFunds(current_balance, amount)
            THEN Outcome(users, transactions, committed,
                         Failure("Insufficient funds"))
            ELSE LET us == [users EXCEPT ![account_number].balance =
                                             WithdrawnBalance(@, amount)]
                     new_balance == current_balance - amount
                     txs == record_transaction(transactions, account_number,
                                               "Withdrawal", amount, new_balance)
                 IN Outcome(us, txs, Commit(us, txs), Success(new_balance))

get_balance(account_number) == users[account_number].balance

\* A process that is not inside withdraw_money.
Idle == [pc |-> "idle", account_number |-> 0, amount |-> 0, current_balance |-> 0]

\* Mutant: the UPDATE stores the balance the process computed from its read.
withdraw_money_write_computed(w) ==
    LET new_balance == w.current_balance - w.amount
        us == [users EXCEPT ![w.account_number].balance = new_balance]
        txs == record_transaction(transactions, w.account_number,
                                  "Withdrawal", w.amount, new_balance)
    IN Outcome(us, txs, Commit(us, txs), Success(new_balance))

\* The second half of withdraw_money, for a process w that read
\* current_balance and passed the check: the UPDATE subtracts from the
\* balance the store holds now, the row gets the balance computed from the
\* read.
withdraw_money_write(w) ==
    LET us == [users EXCEPT ![w.account_number].balance =
                               WithdrawnBalance(@, w.amount)]
        new_balance == w.current_balance - w.amount
        txs == record_transaction(transactions, w.account_number,
                                  "Withdrawal", w.amount, new_balance)
    IN Outcome(us, txs, Commit(us, txs), Success(new_balance))

\* The operations when the INSERT of record_transaction fails in the store.
\* record_transaction catches sqlite3.Error and only prints it, so its
\* caller goes on as after a successful INSERT, with no row written.
register_user_insert_fails(full_name, email, phone, password, initial_deposit) ==
    LET out == register_user(full_name, email, phone, password, initial_deposit)
    IN Outcome(out.users, transactions, out.committed, out.ret)

\* Mutant: record_transaction lets the error through to deposit_money's own
\* handler, which reports the failure and does not commit.
deposit_money_insert_error_raised(account_number, amount) ==
    IF ~AccountExists(account_number)
    THEN Outcome(users, transactions, committed, Failure("TypeError"))
    ELSE Outcome([users EXCEPT ![account_number].balance =
                                  DepositedBalance(@, amount)],
                 transactions, committed, None)

deposit_money_insert_fails(account_number, amount) ==
    LET out == deposit_money(account_number, amount)
    IN IF ~AccountExists(account_number)
       THEN out
       ELSE Outcome(out.users, transactions,
                    Commit(out.users, transactions), out.ret)

withdraw_money_insert_fails(account_number, amount) ==
    LET out == withdraw_money(account_number, amount)
    IN IF out.users = users
       THEN out
       ELSE Outcome(out.users, transactions,
                    Commit(out.users, transactions), out.ret)

\* The columns the history query selects.
Columns(row) == [transaction_type |-> row.transaction_type,
                 amount |-> row.amount,
                 balance_after |-> row.balance_after,
                 transaction_date |-> row.transaction_date]

\* ORDER BY transaction_date DESC: rows of one timestamp come in an order
\* the query does not determine.
OrderedByDateDesc(txs, ids) ==
    \A i \in 1..(Len(ids) - 1) :
        txs[ids[i]].transaction_date >= txs[ids[i + 1]].transaction_date

get_transaction_history(account_number) ==
    LET S == RowIds(transactions, account_number)
        orders == {ids \in [1..Cardinality(S) -> S] :
                      /\ \A i, j \in 1..Cardinality(S) : i # j => ids[i] # ids[j]
                      /\ OrderedByDateDesc(transactions, ids)}
    IN {[i \in 1..Cardinality(S) |-> Columns(transactions[ids[i]])] : ids \in orders}

\* ---------------------------------------------------------------- steps
Apply(out) ==
    /\ users' = out.users
    /\ transactions' = out.transactions
    /\ committed' = out.committed

Init ==
    /\ users = <<>>
    /\ transactions = <<>>
    /\ committed = Commit(<<>>, <<>>)
    /\ now = 0
    /\ current_user = NoUser
    /\ screen = "login"
    /\ withdrawing = [p \in Processes |-> Idle]

\* The store's clock passes to the next second.
Tick ==
    /\ now < MaxTime
    /\ now' = now + 1
    /\ UNCHANGED <<users, transactions, committed, current_user, screen, withdrawing>>

\* ---- the ledger service called directly
CallRegisterUser(full_name, email, phone, password, initial_deposit) ==
    /\ Len(transactions) < MaxTxns
    /\ Apply(register_user(full_name, email, phone, password, initial_deposit))
    /\ UNCHANGED <<now, current_user, screen, withdrawing>>

CallDepositMoney(account_number, amount) ==
    /\ Len(transactions) < MaxTxns
    /\ Apply(deposit_money(account_number, amount))
    /\ UNCHANGED <<now, current_user, screen, withdrawing>>

CallWithdrawMoney(account_number, amount) ==
    /\ Len(transactions) < MaxTxns
    /\ Apply(withdraw_money(account_number, amount))
    /\ UNCHANGED <<now, current_user, screen, withdrawing>>

\* A query: it hands some ordering the store may produce to the caller and
\* changes nothing.
CallGetTransactionHistory(account_number) ==
    /\ \E rows \in get_transaction_history(account_number) : Len(rows) >= 0
    /\ UNCHANGED vars

\* The three writing operations with a store error on the transactions
\* INSERT.  No row is written, so the balance bounds the failed deposits.
CallRegisterUserInsertFails(full_name, email, phone, password, initial_deposit) ==
    /\ Apply(register_user_insert_fails(full_name, email, phone, password,
                                        initial_deposit))
    /\ UNCHANGED <<now, current_user, screen, withdrawing>>

CallDepositMoneyInsertFails(account_number, amount) ==
    /\ AccountExists(account_number)
    /\ users[account_number].balance + amount <= MaxBalance
    /\ Apply(deposit_money_insert_fails(account_number, amount))
    /\ UNCHANGED <<now, current_user, screen, withdrawing>>

CallWithdrawMoneyInsertFails(account_number, amount) ==
    /\ Apply(withdraw_money_insert_fails(account_number, amount))
    /\ UNCHANGED <<now, current_user, screen, withdrawing>>

StoreErrors(deposits, amounts) ==
    \/ \E full_name \in Names, email \in Emails, phone \in Phones,
          password \in Passwords, initial_deposit \in deposits :
           CallRegisterUserInsertFails(full_name, email, phone, password,
                                       initial_deposit)
    \/ \E account_number \in AccountNumbers, amount \in amounts :
           CallDepositMoneyInsertFails(account_number, amount)
    \/ \E account_number \in AccountNumbers, amount \in amounts :
           CallWithdrawMoneyInsertFails(account_number, amount)

\* A query: it returns the balance of an existing account (for any other
\* account number fetchone()[0] raises) and changes nothing.
CallGetBalance(account_number) ==
    /\ AccountExists(account_number) => get_balance(account_number) \in Int
    /\ UNCHANGED vars

\* A query: it returns the matching account, if any, and changes nothing.
CallLoginUser(email, password) ==
    /\ login_user(email, password) \in {NoUser} \cup
           {[account_number |-> i, name |-> users[i].full_name,
             balance |-> users[i].balance] : i \in 1..Len(users)}
    /\ UNCHANGED vars

Api(deposits, amounts) ==
    \/ \E full_name \in Names, email \in Emails, phone \in Phones,
          password \in Passwords, initial_deposit \in deposits :
           CallRegisterUser(full_name, email, phone, password, initial_deposit)
    \/ \E account_number \in AccountNumbers, amount \in amounts :
           CallDepositMoney(account_number, amount)
    \/ \E account_number \in AccountNumbers, amount \in amounts :
           CallWithdrawMoney(account_number, amount)
    \/ \E account_number \in AccountNumbers :
           CallGetTransactionHistory(account_number)
    \/ \E account_number \in AccountNumbers :
           CallGetBalance(account_number)
    \/ \E email \in EmailTexts, password \in PasswordTexts :
           CallLoginUser(email, password)

\* ---- withdraw_money as the store sees it from two processes
\* SELECT balance and the funds check: the process keeps the balance it read.
\* A refused withdrawal returns at once.
withdraw_money_check(p, account_number, amount) ==
    /\ withdrawing[p].pc = "idle"
    /\ AccountExists(account_number)
    /\ LET current_balance == users[account_number].balance
       IN withdrawing' =
             IF InsufficientFunds(current_balance, amount)
             THEN withdrawing
             ELSE [withdrawing EXCEPT ![p] =
                      [pc |-> "checked", account_number |-> account_number,
                       amount |-> amount, current_balance |-> current_balance]]
    /\ UNCHANGED <<users, transactions, committed, now, current_user, screen>>

\* UPDATE, INSERT and commit: one write transaction of the store.
withdraw_money_update(p) ==
    /\ withdrawing[p].pc = "checked"
    /\ Len(transactions) < MaxTxns
    /\ Apply(withdraw_money_write(withdrawing[p]))
    /\ withdrawing' = [withdrawing EXCEPT ![p] = Idle]
    /\ UNCHANGED <<now, current_user, screen>>

\* ---- the screens
show_login_screen ==
    /\ screen \in {"register", "dashboard"}
    /\ screen' = "login"
    /\ UNCHANGED <<users, transactions, committed, now, current_user, withdrawing>>

show_register_screen ==
    /\ screen = "login"
    /\ screen' = "register"
    /\ UNCHANGED <<users, transactions, committed, now, current_user, withdrawing>>

\* Mutant: the Sign In button opens the dashboard whatever login_user
\* returned, keeping the user of the session before.
login_opens_dashboard(email, password) ==
    /\ screen = "login"
    /\ IF email = "" \/ password = ""
       THEN UNCHANGED <<current_user, screen>>
       ELSE LET user == login_user(email, password)
            IN /\ current_user' = IF user # NoUser THEN user ELSE current_user
               /\ screen' = "dashboard"
    /\ UNCHANGED <<users, transactions, committed, now, withdrawing>>

\* show_login_screen.login: the Sign In button.
login(email, password) ==
    /\ screen = "login"
    /\ IF email = "" \/ password = ""
       THEN UNCHANGED <<current_user, screen>>
       ELSE LET user == login_user(email, password)
            IN IF user # NoUser
               THEN current_user' = user /\ screen' = "dashboard"
               ELSE UNCHANGED <<current_user, screen>>
    /\ UNCHANGED <<users, transactions, committed, now, withdrawing>>

\* show_register_screen.register: the Create Account button.
register(full_name, email, phone, password, initial_deposit) ==
    /\ screen = "register"
    /\ Len(transactions) < MaxTxns
    /\ IF \/ "" \in {full_name, email, phone, password, initial_deposit}
          \/ ~IsNumeral(initial_deposit)
          \/ float(initial_deposit) < 0
       THEN UNCHANGED <<users, transactions, committed, screen>>
       ELSE LET out == register_user(full_name, email, phone, password,
                                     float(initial_deposit))
            IN /\ Apply(out)
               /\ screen' = IF out.ret.none THEN screen ELSE "login"
    /\ UNCHANGED <<now, current_user, withdrawing>>

show_deposit_screen ==
    /\ screen = "dashboard"
    /\ screen' = "Deposit"
    /\ UNCHANGED <<users, transactions, committed, now, current_user, withdrawing>>

show_withdraw_screen ==
    /\ screen = "dashboard"
    /\ screen' = "Withdraw"
    /\ UNCHANGED <<users, transactions, committed, now, current_user, withdrawing>>

show_transaction_history ==
    /\ screen = "dashboard"
    /\ screen' = "history"
    /\ UNCHANGED <<users, transactions, committed, now, current_user, withdrawing>>

\* "< Back to Dashboard" on the deposit, withdraw and history screens.
show_dashboard ==
    /\ screen \in {"Deposit", "Withdraw", "history"}
    /\ screen' = "dashboard"
    /\ UNCHANGED <<users, transactions, committed, now, current_user, withdrawing>>

AmountRejected(amount) == amount <= 0

\* What process_transaction does to the store for the text in the amount
\* field: a ValueError or a rejected amount ends it before any ledger call.
process_transaction_call(trans_type, account_number, text) ==
    IF ~IsNumeral(text) \/ AmountRejected(float(text))
    THEN Outcome(users, transactions, committed, None)
    ELSE IF trans_type = "Deposit"
         THEN deposit_money(account_number, float(text))
         ELSE withdraw_money(account_number, float(text))

\* create_transaction_screen.process_transaction: the Confirm button.
process_transaction(text) ==
    /\ screen \in {"Deposit", "Withdraw"}
    /\ Len(transactions) < MaxTxns
    /\ LET out == process_transaction_call(screen, current_user.account_number, text)
       IN /\ Apply(out)
          /\ screen' = IF out.ret.none THEN screen ELSE "dashboard"
    /\ UNCHANGED <<now, current_user, withdrawing>>

\* export_to_pdf reads the history and writes a file: no state of the
\* ledger or of the screens changes.
export_to_pdf ==
    /\ screen = "history"
    /\ UNCHANGED vars

Gui ==
    \/ show_login_screen
    \/ show_register_screen
    \/ \E email \in EmailTexts, password \in PasswordTexts : login(email, password)
    \/ \E full_name \in Names, email \in EmailTexts, phone \in Phones,
          password \in Passwords, initial_deposit \in AmountTexts :
           register(full_name, email, phone, password, initial_deposit)
    \/ show_deposit_screen
    \/ show_withdraw_screen
    \/ show_transaction_history
    \/ show_dashboard
    \/ \E text \in AmountTexts : process_transaction(text)
    \/ export_to_pdf

\* The ledger service called with the arguments it is specified for.
Next ==
    \/ Tick
    \/ Api(InitialDeposits, PositiveAmounts)

Spec == Init /\ [][Next]_vars

\* The ledger service called with any arguments.
NextAnyArgs ==
    \/ Tick
    \/ Api(Amounts, Amounts)

SpecAnyArgs == Init /\ [][NextAnyArgs]_vars

\* Registrations, and the writing calls in their contract with the
\* transactions INSERT failing.
NextStoreErrors ==
    \/ Tick
    \/ \E full_name \in Names, email \in Emails, phone \in Phones,
          password \in Passwords, initial_deposit \in InitialDeposits :
           CallRegisterUser(full_name, email, phone, password, initial_deposit)
    \/ StoreErrors(InitialDeposits, PositiveAmounts)

SpecStoreErrors == Init /\ [][NextStoreErrors]_vars

\* Two processes on one database, each with its own connection.  Accounts
\* are opened empty and funded by deposits, so neither connection holds an
\* uncommitted row; a withdrawal is the two steps the store can interleave.
NextTwoProcesses ==
    \/ Tick
    \/ \E full_name \in Names, email \in Emails, phone \in Phones,
          password \in Passwords :
           CallRegisterUser(full_name, email, phone, password, 0)
    \/ \E account_number \in AccountNumbers, amount \in PositiveAmounts :
           CallDepositMoney(account_number, amount)
    \/ \E p \in Processes, account_number \in AccountNumbers,
          amount \in PositiveAmounts :
           withdraw_money_check(p, account_number, amount)
    \/ \E p \in Processes : withdraw_money_update(p)

SpecTwoProcesses == Init /\ [][NextTwoProcesses]_vars

\* The program as it runs: one session, every ledger call made by a screen.
NextSession ==
    \/ Tick
    \/ Gui

SpecSession == Init /\ [][NextSession]_vars

\* ---------------------------------------------------------------- properties
\* The rows of one account, oldest first.
TxOf(txs, account_number) ==
    SelectSeq(txs, LAMBDA row : row.account_number = account_number)

IsRow(row, account_number, trans_type, amount, balance_after) ==
    /\ row.account_number = account_number
    /\ row.transaction_type = trans_type
    /\ row.amount = amount
    /\ row.balance_after = balance_after

\* out appends exactly one row to table transactions, the one described.
AppendsOneRow(out, account_number, trans_type, amount, balance_after) ==
    /\ Len(out.transactions) = Len(transactions) + 1
    /\ SubSeq(out.transactions, 1, Len(transactions)) = transactions
    /\ IsRow(out.transactions[Len(out.transactions)],
             account_number, trans_type, amount, balance_after)

ExistingAccounts == 1..Len(users)

\* C1: register_user with a fresh email and initial_deposit >= 0 that returns
\* an account number leaves that account with balance = initial_deposit and
\* with exactly one row (Deposit, initial_deposit, initial_deposit) when
\* initial_deposit > 0, and with no row when initial_deposit = 0.
C1_RegisterBalanceAndRow ==
    \A full_name \in Names, email \in Emails, phone \in Phones,
       password \in Passwords, initial_deposit \in Amounts :
        LET out == register_user(full_name, email, phone, password, initial_deposit)
            n == out.ret.val
            rows == TxOf(out.transactions, n)
        IN (~EmailExists(email) /\ initial_deposit >= 0 /\ ~out.ret.none) =>
              /\ n \in 1..Len(out.users)
              /\ n \notin ExistingAccounts
              /\ out.users[n].balance = initial_deposit
              /\ IF initial_deposit > 0
                 THEN /\ Len(rows) = 1
                      /\ IsRow(rows[1], n, "Deposit", initial_deposit, initial_deposit)
                 ELSE rows = <<>>

\* Two registrations have run: one with no initial deposit (no row), one
\* with an initial deposit of 2 (one Deposit row 2 -> 2).
C1_Witness ==
    \E m, n \in ExistingAccounts :
        /\ users[m].balance = 0 /\ TxOf(transactions, m) = <<>>
        /\ users[n].balance = 2 /\ Len(TxOf(transactions, n)) = 1
        /\ IsRow(TxOf(transactions, n)[1], n, "Deposit", 2, 2)

NoTwoAccountsShareAnEmail ==
    \A i, j \in ExistingAccounts : i # j => users[i].email # users[j].email

\* C2: register_user with an email that already belongs to an account
\* returns None, adds no users row and no transactions row and leaves every
\* existing row as it was; no two accounts ever share an email.
C2_DuplicateEmailRejected ==
    /\ \A full_name \in Names, email \in Emails, phone \in Phones,
          password \in Passwords, initial_deposit \in Amounts :
           LET out == register_user(full_name, email, phone, password, initial_deposit)
           IN (\E i \in ExistingAccounts : users[i].email = email) =>
                 /\ out.ret = None
                 /\ out.users = users
                 /\ out.transactions = transactions
    /\ NoTwoAccountsShareAnEmail

\* Two accounts are registered and a further registration with the email of
\* the first is refused.
C2_Witness ==
    /\ Len(users) = 2
    /\ register_user("A", users[1].email, "555", "pw", 1).ret = None

\* C3: deposit_money on an existing account with balance b and amount a > 0
\* returns b + a, stores b + a and appends exactly one row
\* (Deposit, a, b + a) for that account.
C3_DepositAddsAmount ==
    \A account_number \in ExistingAccounts, a \in Amounts :
        LET b == users[account_number].balance
            out == deposit_money(account_number, a)
        IN a > 0 =>
              /\ out.ret = Value(b + a)
              /\ out.users[account_number].balance = b + a
              /\ AppendsOneRow(out, account_number, "Deposit", a, b + a)

\* A deposit of 1 into an account that held 2 has been made.
C3_Witness ==
    \E i \in 2..Len(transactions) :
        /\ IsRow(transactions[i], transactions[i].account_number, "Deposit", 1, 3)
        /\ users[transactions[i].account_number].balance = 3

\* C4: withdraw_money on an existing account with balance b and amount a > b
\* returns (None, 'Insufficient funds'), leaves the balance at b and appends
\* no row.
C4_OverdraftRefused ==
    \A account_number \in ExistingAccounts, a \in Amounts :
        LET b == users[account_number].balance
            out == withdraw_money(account_number, a)
        IN a > b =>
              /\ out.ret = Failure("Insufficient funds")
              /\ out.users = users
              /\ out.users[account_number].balance = b
              /\ out.transactions = transactions

\* An account holds 1 and a withdrawal of 2 from it is refused.
C4_Witness ==
    \E account_number \in ExistingAccounts :
        /\ users[account_number].balance = 1
        /\ withdraw_money(account_number, 2).ret = Failure("Insufficient funds")

\* C5: withdraw_money on an existing account with balance b and amount a,
\* 0 < a <= b, returns b - a, stores b - a and appends exactly one row
\* (Withdrawal, a, b - a) whose balance_after is the stored balance.
C5_WithdrawSubtractsAmount ==
    \A account_number \in ExistingAccounts, a \in Amounts :
        LET b == users[account_number].balance
            out == withdraw_money(account_number, a)
        IN (0 < a /\ a <= b) =>
              /\ out.ret = Success(b - a)
              /\ out.users[account_number].balance = b - a
              /\ AppendsOneRow(out, account_number, "Withdrawal", a, b - a)
              /\ out.transactions[Len(out.transactions)].balance_after
                    = out.users[account_number].balance

\* A part of a balance has been withdrawn (1 of 2) and then all that was
\* left (a = b = 1).
C5_Witness ==
    \E i, j \in 1..Len(transactions) :
        /\ i < j
        /\ transactions[i].account_number = transactions[j].account_number
        /\ IsRow(transactions[i], transactions[i].account_number, "Withdrawal", 1, 1)
        /\ IsRow(transactions[j], transactions[j].account_number, "Withdrawal", 1, 0)
        /\ users[transactions[j].account_number].balance = 0

RECURSIVE Reverse(_)
Reverse(seq) ==
    IF seq = <<>> THEN <<>> ELSE Append(Reverse(Tail(seq)), Head(seq))

NewestFirst(account_number) ==
    LET rows == TxOf(transactions, account_number)
    IN Reverse([i \in 1..Len(rows) |-> Columns(rows[i])])

\* C6: get_transaction_history(account) returns exactly that account's rows,
\* newest first: a row created later comes earlier in the result, also when
\* both were created within one tick of CURRENT_TIMESTAMP.
C6_HistoryNewestFirst ==
    \A account_number \in AccountNumbers :
        get_transaction_history(account_number) = {NewestFirst(account_number)}

LatestRow(account_number) ==
    LET S == RowIds(transactions, account_number)
    IN transactions[CHOOSE i \in S : \A j \in S : j <= i]

C8_LatestRowHasBalance ==
    \A account_number \in ExistingAccounts :
        RowIds(transactions, account_number) # {} =>
            LatestRow(account_number).balance_after = users[account_number].balance

\* An account with an initial deposit, a deposit and a withdrawal.
C8_Witness ==
    \E account_number \in ExistingAccounts :
        LET rows == TxOf(transactions, account_number)
        IN /\ Len(rows) = 3
           /\ rows[2].transaction_type = "Deposit"
           /\ rows[3].transaction_type = "Withdrawal"

Signed(row) ==
    IF row.transaction_type = "Deposit" THEN row.amount ELSE 0 - row.amount

RECURSIVE SumOfRows(_)
SumOfRows(rows) ==
    IF rows = <<>> THEN 0 ELSE Signed(Head(rows)) + SumOfRows(Tail(rows))

Untouched(out) ==
    /\ out.users = users
    /\ out.transactions = transactions

\* C10: a deposit or withdrawal request with amount <= 0 changes no balance
\* and appends no row, whether it comes through process_transaction or
\* through a direct call of deposit_money or withdraw_money.
C10_NonPositiveAmountRejected ==
    /\ [](\A account_number \in ExistingAccounts, a \in Amounts :
            a <= 0 =>
               /\ Untouched(process_transaction_call("Deposit", account_number,
                                                     ToString(a)))
               /\ Untouched(process_transaction_call("Withdraw", account_number,
                                                     ToString(a))))
    /\ [][\A account_number \in AccountNumbers, a \in Amounts :
             (a <= 0 /\ (\/ CallDepositMoney(account_number, a)
                         \/ CallWithdrawMoney(account_number, a)))
                => UNCHANGED <<users, transactions>>]_vars

Matches(i, email, password) ==
    users[i].email = email /\ users[i].password = password

\* C11: login_user(email, password) returns (account_number, full_name,
\* balance) of an account if and only if some account has exactly that email
\* and exactly that password, and then it is that account's; otherwise it
\* returns nothing.  A login changes no users row and no transactions row.
C11_LoginIffExactMatch ==
    /\ [](\A email \in EmailTexts, password \in PasswordTexts :
            LET user == login_user(email, password)
            IN /\ (user # NoUser) <=>
                     (\E i \in ExistingAccounts : Matches(i, email, password))
               /\ user # NoUser =>
                     /\ user.account_number \in ExistingAccounts
                     /\ Matches(user.account_number, email, password)
                     /\ user.name = users[user.account_number].full_name
                     /\ user.balance = users[user.account_number].balance)
    /\ [][\A email \in EmailTexts, password \in PasswordTexts :
             (CallLoginUser(email, password) \/ login(email, password))
                => UNCHANGED <<users, transactions, committed>>]_vars

\* Two accounts are registered; the first one's email with its password
\* logs in to the first, the second one's to the second, and the first
\* one's email with another password logs in to none.
C11_Witness ==
    /\ Len(users) = 2
    /\ login_user(users[1].email, users[1].password).account_number = 1
    /\ login_user(users[2].email, users[2].password).account_number = 2
    /\ login_user(users[1].email, "px") = NoUser
    /\ users[1].balance # users[2].balance

IsPrefix(s, t) ==
    Len(s) <= Len(t) /\ SubSeq(t, 1, Len(s)) = s

\* C12: the transactions table is append-only.  No step of any operation
\* (register, login, deposit, withdraw, balance query, history query,
\* export) changes a field of an existing row or removes a row: the table
\* before a step is a prefix of the table after it.
C12_TransactionsAppendOnly ==
    [][IsPrefix(transactions, transactions')]_vars

\* Three rows were appended one after the other, two of them for the same
\* account, and the first one is still the initial deposit.
C12_Witness ==
    /\ Len(transactions) = 3
    /\ transactions[1].transaction_type = "Deposit"
    /\ transactions[1].balance_after = transactions[1].amount
    /\ \E i, j \in 1..3 :
          /\ i < j
          /\ transactions[i].account_number = transactions[j].account_number
          /\ transactions[j].transaction_type = "Withdrawal"

\* C13: every transactions row carries the account number of an existing
\* users row, in every reachable state, also after deposit_money or
\* withdraw_money was called with an account number that does not exist:
\* such a call writes no row at all.
C13_RowsBelongToAccounts ==
    /\ \A i \in 1..Len(transactions) :
          transactions[i].account_number \in ExistingAccounts
    /\ \A account_number \in AccountNumbers \ ExistingAccounts,
          amount \in Amounts :
          /\ deposit_money(account_number, amount).transactions = transactions
          /\ withdraw_money(account_number, amount).transactions = transactions

\* One account with a row exists, and a deposit and a withdrawal on the
\* account number after it fail without a result.
C13_Witness ==
    /\ Len(users) = 1
    /\ Len(transactions) >= 1
    /\ deposit_money(2, 1).ret = Failure("TypeError")
    /\ withdraw_money(2, 1).ret = Failure("TypeError")
    /\ deposit_money(2, 1).users = users

\* C14: no pending store state is retained between calls.  When
\* register_user, deposit_money or withdraw_money has returned, with a result
\* or with a failure, every row change it made is committed or discarded: the
\* committed database equals what the connection sees.  In particular the
\* initial-deposit row of register_user is committed when register_user
\* returns.
C14_NothingPendingBetweenCalls ==
    committed = Commit(users, transactions)

\* C15: when the store fails on the INSERT of the transaction row inside
\* deposit_money or withdraw_money, after the balance UPDATE, nothing is
\* rolled back: the new balance is stored and committed and is returned as a
\* success, and no row was written.
C15_InsertFailureKeepsBalanceChange ==
    \A account_number \in ExistingAccounts, amount \in PositiveAmounts :
        LET balance == users[account_number].balance
            dep == deposit_money_insert_fails(account_number, amount)
            wd == withdraw_money_insert_fails(account_number, amount)
        IN /\ dep.ret = Value(balance + amount)
           /\ dep.users[account_number].balance = balance + amount
           /\ dep.committed.users = dep.users
           /\ dep.transactions = transactions
           /\ amount <= balance =>
                 /\ wd.ret = Success(balance - amount)
                 /\ wd.users[account_number].balance = balance - amount
                 /\ wd.committed.users = wd.users
                 /\ wd.transactions = transactions

\* A committed balance change that no row backs: the account was opened
\* with 1 and has that one row, a deposit of 1 lost its row, and the balance
\* of 2 is stored durably.
C15_Witness ==
    /\ Len(users) >= 1
    /\ Len(TxOf(transactions, 1)) = 1
    /\ LatestRow(1).balance_after = 1
    /\ users[1].balance = 2
    /\ committed = Commit(users, transactions)
    /\ deposit_money_insert_fails(1, 1).ret = Value(3)

\* C16: the ledger invariants need there to be one session.  With two
\* processes on one database, each process that has read the balance and
\* passed the funds check goes on to subtract its amount from whatever the
\* store holds by then and to record the balance it computed from its own
\* read: when the other process has withdrawn in between, the row's
\* balance_after differs from the stored balance, and the stored balance is
\* negative when less than the amount was left.  Only the sum of the rows
\* still equals the balance.
C16_InterleavedWithdrawals ==
    /\ \A p \in Processes :
          withdrawing[p].pc = "checked" =>
             LET w == withdrawing[p]
                 stored == users[w.account_number].balance
                 out == withdraw_money_write(w)
                 row == out.transactions[Len(out.transactions)]
             IN /\ w.amount <= w.current_balance
                /\ out.ret = Success(w.current_balance - w.amount)
                /\ out.users[w.account_number].balance = stored - w.amount
                /\ IsRow(row, w.account_number, "Withdrawal", w.amount,
                         w.current_balance - w.amount)
                /\ stored # w.current_balance =>
                      row.balance_after # out.users[w.account_number].balance
                /\ stored < w.amount =>
                      out.users[w.account_number].balance < 0
    /\ \A account_number \in ExistingAccounts :
          users[account_number].balance =
             SumOfRows(TxOf(transactions, account_number))

\* Both processes have finished their withdrawals from account 1: the stored
\* balance is negative and the latest row's balance_after is not the stored
\* balance.
C16_Witness ==
    /\ \A p \in Processes : withdrawing[p] = Idle
    /\ Len(users) >= 1
    /\ users[1].balance < 0
    /\ RowIds(transactions, 1) # {}
    /\ LatestRow(1).transaction_type = "Withdrawal"
    /\ LatestRow(1).balance_after # users[1].balance
    /\ committed = Commit(users, transactions)

\* The screens behind the login.
AccountScreens == {"dashboard", "Deposit", "Withdraw", "history"}

\* The step is a Sign In with credentials that login_user accepts, and
\* current_user becomes the account login_user returned.
SuccessfulLogin ==
    /\ screen = "login"
    /\ \E email \in EmailTexts \ {""}, password \in PasswordTexts \ {""} :
          /\ login_user(email, password) # NoUser
          /\ current_user' = login_user(email, password)

\* The step writes the store for the account alone: no other balance
\* changes, no account appears, and every new row is the account's.
WritesOnlyAccount(account_number) ==
    /\ Len(users') = Len(users)
    /\ \A i \in ExistingAccounts \ {account_number} : users'[i] = users[i]
    /\ \A i \in (Len(transactions) + 1)..Len(transactions') :
          transactions'[i].account_number = account_number

\* C17: in the GUI, whatever the sequence of screen actions, the dashboard,
\* deposit, withdraw, history and export screens are entered from the login
\* screen only by a successful login, which makes current_user the account
\* that logged in; current_user changes in no other step (not at logout, not
\* at a failed login); and every ledger operation issued from these screens
\* is for current_user's account, an existing one.
C17_ScreensActOnLoggedInAccount ==
    /\ [](screen \in AccountScreens =>
             /\ current_user # NoUser
             /\ current_user.account_number \in ExistingAccounts
             /\ current_user.name = users[current_user.account_number].full_name)
    /\ [][/\ screen \notin AccountScreens /\ screen' \in AccountScreens
             => SuccessfulLogin
          /\ current_user' # current_user => SuccessfulLogin
          /\ screen \in AccountScreens /\ screen' \in AccountScreens
             => WritesOnlyAccount(current_user.account_number)
          /\ screen \in AccountScreens /\ screen' \notin AccountScreens
             => UNCHANGED <<users, transactions>>]_vars

\* The session has changed accounts: account 1 has withdrawn, which took a
\* login to it, and the deposit screen is now open for account 2, after a
\* logout and a login to account 2; a Sign In with a wrong password from
\* here on would not be accepted.
C17_Witness ==
    /\ Len(users) = 2
    /\ screen = "Deposit"
    /\ current_user.account_number = 2
    /\ RowIds(transactions, 1) # {}
    /\ LatestRow(1).transaction_type = "Withdrawal"
    /\ login_user(users[1].email, "px") = NoUser
    /\ process_transaction_call("Deposit", current_user.account_number, "1").users[2].balance
          = users[2].balance + 1

====
